---- MODULE Spec2Model ----
(***************************************************************************)
(* Posture checker (src/main.py): the per-frame posture state machine of   *)
(* process_landmarks / handle_no_detection, the alarm loop controller      *)
(* manage_sound_loop and the background thread play_ping_loop.             *)
(*                                                                         *)
(* Time is counted in ticks of 1/TicksPerSec second, so that a reading of  *)
(* time.time() such as "4.9 s after the last detection" is an integer.     *)
(* Angles are whole degrees.                                               *)
(***************************************************************************)
EXTENDS Integers, FiniteSets, Sequences, TLC

\* ------------------------------------------------------------------------
\* Program constants (src/main.py:35-40) and the literals of process_landmarks
POSTURE_THRESHOLD == 130
STAND_THRESHOLD == 170
MAX_COUNTER == 3
DETECTION_COOLDOWN == 5
SIT_LIMIT_SEC == 3600
\* the literal 10 of line 188: seconds of paused posture check after a stand-up
PAUSE_SEC == 10
\* the literal 3 of line 193: consecutive bad frames needed for a detection
CONSECUTIVE_NEEDED == 3

\* resolution of the modelled clock: time.time() readings are multiples of 0.1 s
TicksPerSec == 10

\* ------------------------------------------------------------------------
\* Bounds of the model
\* the clock reading (in seconds) of the first frame: time.time() is a large
\* positive number, far more than DETECTION_COOLDOWN after the epoch 0.0
StartSec == 100
\* frames arrive during the first MaxSec seconds of the session ...
MaxSec == 12
\* ... and again from one second before SIT_LIMIT_SEC until LateSec seconds after it
LateSec == 2
\* thread objects that can exist at the same time
MaxThreads == 2

\* Python's None, a value that is neither a clock reading nor a thread id
None == -1

ThreadIds == 1..MaxThreads

\* seconds of the session at which a frame may arrive
FrameSeconds == (0..MaxSec) \cup ((SIT_LIMIT_SEC - 1)..(SIT_LIMIT_SEC + LateSec))

\* the seconds at which a detection made as early as possible, and each next one
\* made as early as possible after it, has aged DETECTION_COOLDOWN: the first
\* detection is possible at second CONSECUTIVE_NEEDED - 1
CooldownSeconds ==
    { s \in 1..MaxSec : s >= CONSECUTIVE_NEEDED /\ (s - (CONSECUTIVE_NEEDED - 1)) % DETECTION_COOLDOWN = 0 }

\* clock readings at which a frame may arrive: each frame second, and 0.1 s
\* before each cooldown second
FrameTimes ==
    { (StartSec + s) * TicksPerSec : s \in FrameSeconds }
    \cup { (StartSec + s) * TicksPerSec - 1 : s \in CooldownSeconds }

\* the clock readings at which the frame after one read at clock t may arrive
NextFrameTimes(t) == { u \in FrameTimes : u > t }

\* polar angles (degrees, the range of math.atan2) of the rays b->a and b->c
PolarAngles == {-90, 0, 90, 180}

VARIABLES
    bad_posture_count,        \* state['bad_posture_count']
    consecutive_bad_posture,  \* state['consecutive_bad_posture']
    last_detection_time,      \* state['last_detection_time']
    sitting_start_time,       \* state['sitting_start_time']
    stretch_prompted,         \* state['stretch_prompted']
    prev_is_standing,         \* state['prev_is_standing']
    stand_up_time,            \* state['stand_up_time']
    ping_thread,              \* state['ping_thread']: None or a thread id
    ping_active,              \* state['ping_active']
    now,                      \* the clock reading of the current frame
    frame,                    \* which handler the current frame runs: "landmarks" / "none"
    sit,                      \* local sit of process_landmarks
    is_stand,                 \* local is_stand of process_landmarks
    should_be_active,         \* parameter of manage_sound_loop
    pc,                       \* position of the frame thread
    thread,                   \* thread id -> position of that play_ping_loop thread
    played,                   \* sounds and notices emitted by the current frame
    notices,                  \* history: stretch notices printed since sitting_start_time
                              \* last changed
    scenario_b,               \* history: "off"; "started" once a detection has brought the
                              \* count to MAX_COUNTER and started the alarm loop; "good"
                              \* while every frame since then was a sitting, good-posture one
    stopped_clips             \* history: clip playbacks that returned since line 142
                              \* last cleared ping_active

vars == << bad_posture_count, consecutive_bad_posture, last_detection_time,
           sitting_start_time, stretch_prompted, prev_is_standing, stand_up_time,
           ping_thread, ping_active, now, frame, sit, is_stand, should_be_active,
           pc, thread, played, notices, scenario_b, stopped_clips >>

\* the fields of the state dictionary only the handlers' bodies write (and the
\* history of a sitting episode)
counters == << bad_posture_count, consecutive_bad_posture, last_detection_time,
               sitting_start_time, stretch_prompted, stand_up_time, notices >>

Abs(x) == IF x < 0 THEN -x ELSE x

\* ------------------------------------------------------------------------
\* calculate_angle (lines 53-59), on the polar angles of the two rays:
\* pa = atan2(a - b), pc_ = atan2(c - b), in degrees
calculate_angle(pa, pc_) ==
    LET ang == pc_ - pa
    IN  Abs(IF ang < 180 THEN ang ELSE 360 - ang)

\* get_angle (lines 61-69): 0 when a landmark of the triple is missing or its
\* visibility is below the threshold (visible = FALSE), else the angle
get_angle(visible, pa, pc_) ==
    IF ~visible THEN 0 ELSE calculate_angle(pa, pc_)

\* the values get_angle returns for the landmarks of a frame (lines 166-167)
AngleValues ==
    { get_angle(v, pa, pc_) : v \in BOOLEAN, pa \in PolarAngles, pc_ \in PolarAngles }

\* lines 167-169: the stand angle, folded
fold_std(raw) == IF raw > 180 THEN 360 - raw ELSE raw

\* the stand angles of a frame after the fold
StandAngles == { fold_std(raw) : raw \in AngleValues }

\* Python truthiness of a timestamp-or-None (lines 188, 207): None and 0.0 are false
Truthy(t) == t # None /\ t # 0

\* ------------------------------------------------------------------------
\* process_landmarks, the classification (lines 171-173)
IsStand(std) == std >= STAND_THRESHOLD

IsSit(s, stand) == s # 0 /\ ~stand

\* line 191: the frame's sit angle is a bad-posture angle
IsBadAngle(s) == s < POSTURE_THRESHOLD /\ s # 0

\* mutant: every sitting frame stamps the sitting timer
SittingStart_Restamps(sst, s, stand, t) ==
    IF stand THEN None ELSE IF IsSit(s, stand) THEN t ELSE sst

\* mutant: an unknown-angle frame clears the sitting timer as a standing one does
SittingStart_ClearsUnknown(sst, s, stand, t) ==
    IF IsSit(s, stand) THEN (IF sst = None THEN t ELSE sst) ELSE None

\* lines 175-179: the sitting timer after the frame
SittingStart(sst, s, stand, t) ==
    LET sst1 == IF IsSit(s, stand) /\ sst = None THEN t ELSE sst
    IN  IF stand THEN None ELSE sst1

\* lines 175-179: stretch_prompted after the sitting-timer block
PromptedAfterTimer(sp, sst, s, stand) ==
    LET sp1 == IF IsSit(s, stand) /\ sst = None THEN FALSE ELSE sp
    IN  IF stand THEN FALSE ELSE sp1

\* mutant: the edge test forgets prev_is_standing
StandUpEdge_Level(stand, prev) == stand

\* line 182: the frame is a stand-up edge
StandUpEdge(stand, prev) == stand /\ ~prev

\* mutant: the pause lasts 5 s
Paused_FiveSeconds(sut, t) == Truthy(sut) /\ t - sut < 5 * TicksPerSec

\* line 188: the posture check is paused after a stand-up
Paused(sut, t) == Truthy(sut) /\ t - sut < PAUSE_SEC * TicksPerSec

\* mutant: the detection has no cooldown
DetectionFires_NoCooldown(cbp, t, last) == cbp >= CONSECUTIVE_NEEDED

\* mutant: the cooldown must be exceeded, not just reached
DetectionFires_Strict(cbp, t, last) ==
    cbp >= CONSECUTIVE_NEEDED /\ t - last > DETECTION_COOLDOWN * TicksPerSec

\* line 193: the debounced detection fires (cbp is the counter after line 192)
DetectionFires(cbp, t, last) ==
    cbp >= CONSECUTIVE_NEEDED /\ t - last >= DETECTION_COOLDOWN * TicksPerSec

\* line 207
IsStretchTime(s, stand, sst, t) ==
    IsSit(s, stand) /\ Truthy(sst) /\ t - sst >= SIT_LIMIT_SEC * TicksPerSec

\* line 214
IsBadPostureExceeded(bpc) == bpc >= MAX_COUNTER

\* mutant: the long-sit condition is left out of should_ping
ShouldPing_CountOnly(stretch, exceeded) == exceeded

\* line 221
ShouldPing(stretch, exceeded) == stretch \/ exceeded

\* lines 182-185: the stand-up edge stamps stand_up_time ...
StandUpTimeAfterEdge(edge, sut, t) == IF edge THEN t ELSE sut

\* mutant: the stand-up edge does not reset the count
CountAfterEdge_NoReset(edge, bpc) == bpc

\* mutant: the count is also reset once it has reached MAX_COUNTER
CountAfterEdge_ResetWhenExceeded(edge, bpc) ==
    IF edge \/ bpc >= MAX_COUNTER THEN 0 ELSE bpc

\* ... and resets bad_posture_count
CountAfterEdge(edge, bpc) == IF edge THEN 0 ELSE bpc

\* mutant: a detection does not reset the consecutive counter
ConsecutiveAfterCheck_NoResetOnFire(paused, bad, fires, cbp) ==
    IF paused THEN cbp
    ELSE IF bad THEN cbp + 1
    ELSE 0

\* lines 188-200: consecutive_bad_posture after the posture check; cbp is the
\* counter before the frame, fires says whether line 193 held
ConsecutiveAfterCheck(paused, bad, fires, cbp) ==
    IF paused THEN cbp
    ELSE IF bad THEN (IF fires THEN 0 ELSE cbp + 1)
    ELSE 0

\* mutant: stretch_prompted is never set
PromptedAfterStretch_Never(stretch, sp) == sp

\* lines 208-211: stretch_prompted after the stretch check
PromptedAfterStretch(stretch, sp) == IF stretch THEN TRUE ELSE sp

\* lines 148-221 of process_landmarks for a frame read at clock t with angles
\* s (sit) and std (folded stand angle), up to the call of manage_sound_loop
Landmarks(t, s, std) ==
    LET stand    == IsStand(std)
        sst2     == SittingStart(sitting_start_time, s, stand, t)
        sp2      == PromptedAfterTimer(stretch_prompted, sitting_start_time, s, stand)
        edge     == StandUpEdge(stand, prev_is_standing)
        sut1     == StandUpTimeAfterEdge(edge, stand_up_time, t)
        bpc1     == CountAfterEdge(edge, bad_posture_count)
        paused   == Paused(sut1, t)
        bad      == IsBadAngle(s)
        fires    == /\ ~paused
                    /\ bad
                    /\ DetectionFires(consecutive_bad_posture + 1, t, last_detection_time)
        bpc2     == IF fires THEN bpc1 + 1 ELSE bpc1
        stretch  == IsStretchTime(s, stand, sst2, t)
        notice   == stretch /\ ~sp2
    IN  /\ now' = t
        /\ frame' = "landmarks"
        /\ sit' = s
        /\ is_stand' = stand
        /\ sitting_start_time' = sst2
        /\ stretch_prompted' = PromptedAfterStretch(stretch, sp2)
        /\ stand_up_time' = sut1
        /\ bad_posture_count' = bpc2
        /\ consecutive_bad_posture' =
               ConsecutiveAfterCheck(paused, bad, fires, consecutive_bad_posture)
        /\ last_detection_time' = IF fires THEN t ELSE last_detection_time
        /\ played' = (IF edge THEN {"reset.wav"} ELSE {})
                     \cup (IF fires THEN {"siren_short.wav"} ELSE {})
                     \cup (IF notice THEN {"stretch"} ELSE {})
        /\ should_be_active' = ShouldPing(stretch, IsBadPostureExceeded(bpc2))
        /\ pc' = "msl"
        \* history: notices of the sitting episode, frames since the alarm started
        /\ notices' = (IF sst2 = sitting_start_time THEN notices ELSE 0)
                      + (IF notice THEN 1 ELSE 0)
        /\ scenario_b' = IF scenario_b # "off" /\ IsSit(s, stand) /\ ~bad
                         THEN "good" ELSE "off"
        /\ UNCHANGED << prev_is_standing, ping_thread, ping_active, thread, stopped_clips >>

\* main (lines 293-294): a frame with a detected person
ProcessLandmarks ==
    /\ pc = "idle"
    /\ \E t \in NextFrameTimes(now), s \in AngleValues, std \in StandAngles :
          Landmarks(t, s, std)

\* mutant: handle_no_detection keeps the consecutive counter
NoDetectionReset_KeepsConsecutive ==
    [ sitting_start_time |-> None, stretch_prompted |-> FALSE,
      consecutive_bad_posture |-> consecutive_bad_posture, prev_is_standing |-> FALSE ]

\* handle_no_detection lines 236-239: the fields it resets
NoDetectionReset ==
    [ sitting_start_time |-> None, stretch_prompted |-> FALSE,
      consecutive_bad_posture |-> 0, prev_is_standing |-> FALSE ]

\* main (lines 295-296), handle_no_detection lines 232-240, up to the call of
\* manage_sound_loop(state, False)
HandleNoDetection ==
    /\ pc = "idle"
    /\ \E t \in NextFrameTimes(now) : now' = t
    /\ frame' = "none"
    /\ sitting_start_time' = NoDetectionReset.sitting_start_time
    /\ stretch_prompted' = NoDetectionReset.stretch_prompted
    /\ consecutive_bad_posture' = NoDetectionReset.consecutive_bad_posture
    /\ prev_is_standing' = NoDetectionReset.prev_is_standing
    /\ played' = {}
    /\ should_be_active' = FALSE
    /\ pc' = "msl"
    /\ notices' = 0
    /\ scenario_b' = "off"
    /\ UNCHANGED << bad_posture_count, last_detection_time, stand_up_time,
                    sit, is_stand, ping_thread, ping_active, thread, stopped_clips >>

\* the return of manage_sound_loop to the handler and of the handler to main:
\* process_landmarks still runs line 229
ReturnToMain ==
    /\ pc' = "idle"
    /\ prev_is_standing' = IF frame = "landmarks" THEN is_stand ELSE prev_is_standing

\* the thread object line 139 creates
NewThread == CHOOSE i \in ThreadIds : thread[i] = "none" /\ \A j \in ThreadIds : thread[j] = "none" => i <= j

\* mutant: the start branch does not test ping_active
StartNeeded_Always(sba, active) == sba

\* line 137: the condition of the start branch
StartNeeded(sba, active) == sba /\ ~active

\* line 141: the condition of the stop branch
StopNeeded(sba, active) == ~sba /\ active

\* manage_sound_loop lines 137-140: start the loop
MslStart ==
    /\ pc = "msl"
    /\ StartNeeded(should_be_active, ping_active)
    /\ \E i \in ThreadIds : thread[i] = "none"
    /\ ping_active' = TRUE
    /\ ping_thread' = NewThread
    /\ thread' = [thread EXCEPT ![NewThread] = "check"]
    /\ ReturnToMain
    /\ scenario_b' = IF "siren_short.wav" \in played /\ IsBadPostureExceeded(bad_posture_count)
                     THEN "started" ELSE "off"
    /\ UNCHANGED << counters, now, frame, sit, is_stand, should_be_active, played,
                    stopped_clips >>

\* manage_sound_loop lines 141-142: clear the flag
MslStop ==
    /\ pc = "msl"
    /\ ~StartNeeded(should_be_active, ping_active)
    /\ StopNeeded(should_be_active, ping_active)
    /\ ping_active' = FALSE
    /\ pc' = "join"
    /\ stopped_clips' = 0
    /\ UNCHANGED << counters, prev_is_standing, ping_thread, now, frame, sit, is_stand,
                    should_be_active, thread, played, scenario_b >>

\* mutant: line 145 is left out, the handle of the joined thread is kept
MslJoin_KeepsHandle ==
    /\ pc = "join"
    /\ IF ping_thread # None
       THEN /\ thread[ping_thread] = "dead"
            /\ thread' = [thread EXCEPT ![ping_thread] = "none"]
       ELSE UNCHANGED thread
    /\ pc' = "idle"
    /\ prev_is_standing' = IF frame = "landmarks" THEN is_stand ELSE prev_is_standing
    /\ UNCHANGED << counters, ping_thread, ping_active, now, frame, sit, is_stand,
                    should_be_active, played, scenario_b, stopped_clips >>

\* mutant: the stop does not wait for the loop thread
JoinReturns_NoWait(i) == TRUE

\* line 144: join() returns once thread i has ended
JoinReturns(i) == thread[i] = "dead"

\* manage_sound_loop lines 143-146: join the loop thread, drop the handle (an
\* ended thread whose handle is dropped is gone: its id is free again)
MslJoin ==
    /\ pc = "join"
    /\ IF ping_thread # None
       THEN /\ JoinReturns(ping_thread)
            /\ thread' = [thread EXCEPT ![ping_thread] = IF @ = "dead" THEN "none" ELSE @]
            /\ ping_thread' = None
       ELSE UNCHANGED << thread, ping_thread >>
    /\ ReturnToMain
    /\ UNCHANGED << counters, ping_active, now, frame, sit, is_stand,
                    should_be_active, played, scenario_b, stopped_clips >>

\* manage_sound_loop: neither branch is taken (lines 137, 141, 146)
MslNoop ==
    /\ pc = "msl"
    /\ ~StartNeeded(should_be_active, ping_active)
    /\ ~StopNeeded(should_be_active, ping_active)
    /\ ReturnToMain
    /\ UNCHANGED << counters, ping_thread, ping_active, now, frame, sit, is_stand,
                    should_be_active, thread, played, scenario_b, stopped_clips >>

\* mutant: the loop never looks at the flag
LoopCheck_IgnoresFlag(i) ==
    /\ thread[i] = "check"
    /\ thread' = [thread EXCEPT ![i] = "play"]
    /\ UNCHANGED << counters, prev_is_standing, ping_thread, ping_active, now, frame,
                    sit, is_stand, should_be_active, pc, played, scenario_b, stopped_clips >>

\* play_ping_loop line 47: the loop thread tests the flag
LoopCheck(i) ==
    /\ thread[i] = "check"
    /\ thread' = [thread EXCEPT ![i] = IF ping_active THEN "play" ELSE "dead"]
    /\ UNCHANGED << counters, prev_is_standing, ping_thread, ping_active, now, frame,
                    sit, is_stand, should_be_active, pc, played, scenario_b, stopped_clips >>

\* play_ping_loop line 48: playsound returns after the clip
LoopPlayed(i) ==
    /\ thread[i] = "play"
    /\ thread' = [thread EXCEPT ![i] = "check"]
    /\ stopped_clips' = IF ping_active THEN stopped_clips ELSE stopped_clips + 1
    /\ UNCHANGED << counters, prev_is_standing, ping_thread, ping_active, now, frame,
                    sit, is_stand, should_be_active, pc, played, scenario_b >>

\* play_ping_loop line 48: playsound raises, which ends the thread
LoopPlayFailed(i) ==
    /\ thread[i] = "play"
    /\ thread' = [thread EXCEPT ![i] = "dead"]
    /\ UNCHANGED << counters, prev_is_standing, ping_thread, ping_active, now, frame,
                    sit, is_stand, should_be_active, pc, played, scenario_b, stopped_clips >>

\* main lines 255-265: the state dictionary, before the first frame
Init ==
    /\ bad_posture_count = 0
    /\ consecutive_bad_posture = 0
    /\ last_detection_time = 0
    /\ sitting_start_time = None
    /\ stretch_prompted = FALSE
    /\ prev_is_standing = FALSE
    /\ stand_up_time = None
    /\ ping_thread = None
    /\ ping_active = FALSE
    /\ now = StartSec * TicksPerSec - 1
    /\ frame = "start"
    /\ sit = 0
    /\ is_stand = FALSE
    /\ should_be_active = FALSE
    /\ pc = "idle"
    /\ thread = [i \in ThreadIds |-> "none"]
    /\ played = {}
    /\ notices = 0
    /\ scenario_b = "off"
    /\ stopped_clips = 0

Next ==
    \/ ProcessLandmarks
    \/ HandleNoDetection
    \/ MslStart
    \/ MslStop
    \/ MslJoin
    \/ MslNoop
    \/ \E i \in ThreadIds : LoopCheck(i)
    \/ \E i \in ThreadIds : LoopPlayed(i)
    \/ \E i \in ThreadIds : LoopPlayFailed(i)

Spec == Init /\ [][Next]_vars

\* Spec with the scheduling the threads get: a loop thread that can test the
\* flag does so, a playback call returns or raises, and join() returns once
\* the thread it waits for has ended
LiveSpec ==
    /\ Spec
    /\ WF_vars(\E i \in ThreadIds : LoopCheck(i))
    /\ WF_vars(\E i \in ThreadIds : LoopPlayed(i) \/ LoopPlayFailed(i))
    /\ WF_vars(MslJoin)

\* ------------------------------------------------------------------------
\* Vocabulary of the properties

Ticks(sec) == sec * TicksPerSec

\* the frame thread is between two frames and at least one frame was processed
AtBoundary == pc = "idle" /\ frame # "start"

\* a step that runs the body of a frame handler
FrameStep == pc = "idle" /\ pc' = "msl"

LandmarkStep == FrameStep /\ frame' = "landmarks"

NoDetectionStep == FrameStep /\ frame' = "none"

\* the latest frame was classified as sitting
FrameSitting == frame = "landmarks" /\ IsSit(sit, is_stand)

\* the latest frame was classified as sitting and the sitting timer has run
\* for SIT_LIMIT_SEC or longer
SittingLong ==
    /\ FrameSitting
    /\ sitting_start_time # None
    /\ now - sitting_start_time >= Ticks(SIT_LIMIT_SEC)

\* the short alarm of a debounced detection was played by the latest frame
Fired == "siren_short.wav" \in played

\* ------------------------------------------------------------------------
\* C1 (as claimed): after every processed frame, landmarks or no detection,
\* ping_active is true iff bad_posture_count >= 3 or the uninterrupted
\* sitting duration is >= 3600 s.
C1_AlertIffCondition_Original ==
    AtBoundary => (ping_active <=> (IsBadPostureExceeded(bad_posture_count) \/ SittingLong))

\* C1 (amended): after every frame processed by process_landmarks, ping_active
\* is true iff bad_posture_count >= 3 or (the frame is classified sitting and
\* now - sitting_start_time >= 3600 s); after every no-detection frame
\* ping_active is false, whatever bad_posture_count is.
C1_AlertIffCondition ==
    AtBoundary =>
        IF frame = "landmarks"
        THEN ping_active <=> (bad_posture_count >= MAX_COUNTER \/ SittingLong)
        ELSE ~ping_active

\* a no-detection frame has silenced the alarm although the count is still >= 3
C1_Witness ==
    AtBoundary /\ frame = "none" /\ bad_posture_count >= MAX_COUNTER /\ ~ping_active

\* ------------------------------------------------------------------------
\* C2: bad_posture_count never decreases from one frame to the next, except
\* that it becomes exactly 0 on a stand-up edge (a frame classified standing
\* while prev_is_standing is false); it is 0 after every such edge, and only
\* the body of process_landmarks changes it (a no-detection frame does not).
C2_CountMonotoneExceptEdge ==
    [][ LET edge == LandmarkStep /\ is_stand' /\ ~prev_is_standing
        IN  /\ bad_posture_count' < bad_posture_count => edge
            /\ edge => bad_posture_count' = 0
            /\ ~LandmarkStep => bad_posture_count' = bad_posture_count
      ]_vars

\* a stand-up edge has just cleared a count that a detection had raised
C2_Witness ==
    /\ pc = "msl" /\ frame = "landmarks"
    /\ is_stand /\ ~prev_is_standing
    /\ last_detection_time > 0
    /\ stand_up_time = now
    /\ bad_posture_count = 0

\* ------------------------------------------------------------------------
\* C3 (as claimed): after the count reaches 3 and the alarm loop is started,
\* if every later frame is a detected, sitting, good-posture frame, the loop
\* is stopped, and that happens before any stand-up edge: the frame that
\* ends such a run of good frames with a stand-up edge finds the loop stopped.
C3_StopsBeforeStandUp_Original ==
    [][ (scenario_b = "good" /\ LandmarkStep /\ is_stand' /\ ~prev_is_standing)
            => ~ping_active ]_vars

\* C3 (amended): after the count reaches 3 and the alarm loop is started, as
\* long as every later frame is a detected, sitting, good-posture frame the
\* count stays >= 3 and the alarm loop stays active: good posture alone never
\* stops it (only a stand-up edge or a no-detection frame does).
C3_GoodPostureKeepsAlarm ==
    scenario_b # "off" => (ping_active /\ bad_posture_count >= MAX_COUNTER)

\* the alarm is still on after good sitting frames that followed its start
C3_Witness ==
    scenario_b = "good" /\ pc = "idle" /\ ping_active /\ ~IsBadAngle(sit)

\* ------------------------------------------------------------------------
\* C4 (as claimed): after every processed frame, sitting_start_time is
\* non-null iff that frame was classified as sitting; a standing frame, an
\* unknown-angle frame and a no-detection frame each leave it null.
C4_TimerIffSitting_Original ==
    AtBoundary => (sitting_start_time # None <=> FrameSitting)

\* C4 (amended): after a frame classified as sitting sitting_start_time is
\* non-null, after a standing frame and after a no-detection frame it is
\* null; a detected frame that is neither (sit angle unknown, not standing)
\* leaves it exactly as it was, so it can be non-null after a frame that was
\* not classified as sitting.
C4_TimerFollowsFrames ==
    /\ [](AtBoundary =>
            /\ FrameSitting => sitting_start_time # None
            /\ (frame = "none" \/ is_stand) => sitting_start_time = None)
    /\ [][ (LandmarkStep /\ sit' = 0 /\ ~is_stand')
              => sitting_start_time' = sitting_start_time ]_vars

\* the timer is running after a detected frame whose sit angle is unknown
C4_Witness ==
    /\ AtBoundary /\ frame = "landmarks"
    /\ sit = 0 /\ ~is_stand
    /\ sitting_start_time # None

C6_StandUpCueOncePerEdge ==
    [][ FrameStep =>
          /\ ("reset.wav" \in played')
                <=> (frame' = "landmarks" /\ is_stand'
                     /\ ~(frame = "landmarks" /\ is_stand))
          /\ ("reset.wav" \in played')
                => (stand_up_time' = now' /\ bad_posture_count' = 0)
      ]_vars

\* a second standing frame in a row, some time after the edge, plays no cue
C6_Witness ==
    /\ pc = "msl" /\ frame = "landmarks"
    /\ is_stand /\ prev_is_standing
    /\ stand_up_time # None /\ stand_up_time < now
    /\ "reset.wav" \notin played

\* ------------------------------------------------------------------------
\* C7: outside the pause, a frame fires a debounced detection (count + 1,
\* last_detection_time := now, consecutive := 0, siren_short.wav) iff its sit
\* angle is bad, it brings consecutive_bad_posture to >= 3 and
\* now - last_detection_time >= 5 s: not at 4.9 s, yes at 5.0 s.
C7_DebouncedDetection ==
    [][ (LandmarkStep /\ ~Paused(stand_up_time', now')) =>
          LET age == now' - last_detection_time
          IN  /\ Fired' <=> /\ IsBadAngle(sit')
                            /\ consecutive_bad_posture + 1 >= 3
                            /\ age >= Ticks(5)
              /\ age = Ticks(5) - 1 => ~Fired'
              /\ (IsBadAngle(sit') /\ consecutive_bad_posture >= 2 /\ age = Ticks(5))
                    => Fired'
              /\ Fired' => /\ bad_posture_count' = bad_posture_count + 1
                           /\ last_detection_time' = now'
                           /\ consecutive_bad_posture' = 0
      ]_vars

\* the second detection fires at the earliest clock reading possible for it:
\* exactly 5.0 s after a first detection made by the third frame of the session
C7_Witness ==
    /\ pc = "msl" /\ Fired
    /\ bad_posture_count = 2
    /\ consecutive_bad_posture = 0
    /\ last_detection_time = now
    /\ now = Ticks(StartSec + CONSECUTIVE_NEEDED - 1 + DETECTION_COOLDOWN)

\* ------------------------------------------------------------------------
\* C8: the stretch notice is printed exactly once per sitting episode (the
\* time during which sitting_start_time keeps its value): never before
\* now - sitting_start_time >= 3600 s, by the first sitting frame at which
\* that holds, and not again by later frames of the episode.
C8_StretchNoticeOnce ==
    /\ notices <= 1
    /\ notices = 1 =>
          (sitting_start_time # None /\ now - sitting_start_time >= Ticks(SIT_LIMIT_SEC))
    /\ "stretch" \in played => (SittingLong /\ notices = 1)
    /\ SittingLong => (notices = 1 /\ stretch_prompted)

\* a later sitting frame of an episode that was already reminded prints nothing
C8_Witness ==
    /\ pc = "msl" /\ SittingLong
    /\ now - sitting_start_time > Ticks(SIT_LIMIT_SEC)
    /\ notices = 1
    /\ "stretch" \notin played

\* ------------------------------------------------------------------------
\* C9: a no-detection frame sets sitting_start_time to None, stretch_prompted
\* to False, consecutive_bad_posture to 0 and prev_is_standing to False, leaves
\* bad_posture_count, last_detection_time and stand_up_time unchanged, and
\* returns with the alarm loop stopped.
C9_NoDetectionEffect ==
    /\ [][ /\ NoDetectionStep =>
                /\ sitting_start_time' = None
                /\ stretch_prompted' = FALSE
                /\ consecutive_bad_posture' = 0
                /\ prev_is_standing' = FALSE
                /\ bad_posture_count' = bad_posture_count
                /\ last_detection_time' = last_detection_time
                /\ stand_up_time' = stand_up_time
           /\ (frame = "none" /\ pc # "idle") =>
                /\ UNCHANGED counters
                /\ prev_is_standing' = prev_is_standing
         ]_vars
    /\ []((AtBoundary /\ frame = "none") => (~ping_active /\ ping_thread = None))

\* a no-detection frame has stopped an active alarm and kept the count
C9_Witness ==
    /\ AtBoundary /\ frame = "none"
    /\ bad_posture_count >= MAX_COUNTER
    /\ last_detection_time > 0
    /\ sitting_start_time = None /\ consecutive_bad_posture = 0
    /\ ~ping_active /\ ping_thread = None

\* ------------------------------------------------------------------------
\* C10: whenever the frame thread is outside manage_sound_loop and ping_active
\* is false, no loop thread is alive and no alarm clip is being played: a stop
\* returns only after the loop thread has ended.
C10_StopWaitsForLoop ==
    (pc = "idle" /\ ~ping_active) => \A i \in ThreadIds : thread[i] \notin {"check", "play"}

\* a stop has returned: the alarm had been started and no thread is left
C10_Witness ==
    /\ pc = "idle" /\ ~ping_active
    /\ bad_posture_count >= MAX_COUNTER
    /\ frame = "none"
    /\ \A i \in ThreadIds : thread[i] = "none"

\* ------------------------------------------------------------------------
\* C11: a failed playback is not fatal to the alarm loop: whenever the frame
\* thread is between frames and ping_active is true, a loop thread is running
\* (testing the flag or playing the clip).
C11_LoopSurvivesPlaybackFailure ==
    (pc = "idle" /\ ping_active) => \E i \in ThreadIds : thread[i] \in {"check", "play"}

\* ------------------------------------------------------------------------
\* C12: cancelling the alarm loop is cooperative and bounded by one clip:
\* under every interleaving, a clip that is being played ends only by its own
\* playback call ending (no step of the frame thread cuts it short), at most
\* one clip playback returns between the clearing of ping_active and the exit
\* of the loop, and, playback calls ending, the stop eventually returns.
C12_CooperativeBoundedStop ==
    /\ [](stopped_clips <= 1)
    /\ [][ \A i \in ThreadIds :
             (thread[i] = "play" /\ thread'[i] # "play")
                => /\ thread'[i] \in {"check", "dead"}
                   /\ pc' = pc
                   /\ ping_active' = ping_active ]_vars
    /\ (pc = "join" ~> pc = "idle")

\* the stop is waiting, the clip that was playing when the flag was cleared
\* has returned and the loop has then exited
C12_Witness ==
    /\ pc = "join" /\ ~ping_active
    /\ stopped_clips = 1
    /\ ping_thread # None /\ thread[ping_thread] = "dead"

\* ------------------------------------------------------------------------
\* C13: a frame with a detected person whose clock reading is less than 10 s
\* after the stand-up edge (the edge frame included) skips the bad-posture
\* evaluation: consecutive_bad_posture and last_detection_time keep their
\* values, no siren_short.wav is played, and bad_posture_count keeps its value
\* (the edge frame itself sets it to 0); from 10.0 s on, a bad-angle frame
\* counts again.
C13_PauseSkipsEvaluation ==
    [][ LandmarkStep =>
          LET inPause == stand_up_time' # None /\ now' - stand_up_time' < Ticks(10)
              edge    == "reset.wav" \in played'
          IN  /\ inPause =>
                    /\ consecutive_bad_posture' = consecutive_bad_posture
                    /\ last_detection_time' = last_detection_time
                    /\ ~Fired'
                    /\ bad_posture_count' = IF edge THEN 0 ELSE bad_posture_count
              /\ (~inPause /\ IsBadAngle(sit') /\ ~Fired')
                    => consecutive_bad_posture' = consecutive_bad_posture + 1
      ]_vars

\* 9.9 s after the edge, a sitting bad-angle frame that would otherwise be the
\* third in a row, more than 5 s after the last detection, is not counted
C13_Witness ==
    /\ pc = "msl" /\ frame = "landmarks"
    /\ ~is_stand /\ IsBadAngle(sit)
    /\ stand_up_time # None /\ now - stand_up_time = Ticks(10) - 1
    /\ consecutive_bad_posture = 2
    /\ now - last_detection_time >= Ticks(5)
    /\ ~Fired

\* ------------------------------------------------------------------------
\* C14: a frame classified as standing is never treated as bad posture: it
\* increments neither consecutive_bad_posture nor bad_posture_count and plays
\* no siren_short.wav, whatever its sit angle.
C14_StandingNeverBadPosture ==
    [][ (LandmarkStep /\ is_stand') =>
          /\ consecutive_bad_posture' <= consecutive_bad_posture
          /\ bad_posture_count' <= bad_posture_count
          /\ ~Fired'
      ]_vars

\* ------------------------------------------------------------------------
\* C15: manage_sound_loop is idempotent in both directions: a call that finds
\* ping_active equal to should_be_active returns at once, leaving ping_active,
\* the thread handle and the threads as they are (nothing spawned, nothing
\* joined); and every call returns with ping_active equal to the condition it
\* was given, so a second call with the same condition is such a call.
C15_ReconcileIdempotent ==
    /\ [][ (pc = "msl" /\ pc' # "msl" /\ should_be_active = ping_active) =>
              /\ pc' = "idle"
              /\ UNCHANGED << ping_active, ping_thread, thread >> ]_vars
    /\ [][ (pc \in {"msl", "join"} /\ pc' = "idle") =>
              /\ ping_active' = should_be_active
              /\ (ping_thread' # None) <=> should_be_active ]_vars

\* the alarm was started by an earlier frame and the call of the latest frame,
\* again with a true condition, has returned with the same loop thread running
C15_Witness ==
    /\ pc = "idle" /\ scenario_b = "good"
    /\ should_be_active /\ ping_active
    /\ ping_thread # None /\ thread[ping_thread] \in {"check", "play"}
    /\ \A i \in ThreadIds : i # ping_thread => thread[i] = "none"

\* ------------------------------------------------------------------------
\* C16: calculate_angle returns a value in [0,180] for every pair of polar
\* angles of the two rays: the sit angle process_landmarks computes for a
\* frame (0 when a landmark is not visible) lies in [0,180].
C16_AngleInRange ==
    frame = "landmarks" => sit \in 0..180

\* ------------------------------------------------------------------------
\* C17: under every interleaving of the frames with the loop thread, at most
\* one alarm loop thread is alive; whenever the frame thread is between two
\* frames, ping_thread is not None exactly when ping_active is true; and a
\* loop thread is spawned only when no handle is held and every earlier loop
\* thread has ended and been joined.
C17_SingleLoopThread ==
    /\ [](Cardinality({ i \in ThreadIds : thread[i] \in {"check", "play"} }) <= 1)
    /\ [](pc = "idle" => ((ping_thread # None) <=> ping_active))
    /\ [][ \A i \in ThreadIds :
             (thread[i] = "none" /\ thread'[i] # "none")
                => /\ ping_thread = None
                   /\ \A j \in ThreadIds : thread[j] = "none"
                   /\ ping_thread' = i /\ thread'[i] = "check" ]_vars

\* a loop thread runs again after an earlier one was stopped during a clip,
\* finished that clip, ended and was joined
C17_Witness ==
    /\ pc = "idle" /\ ping_active
    /\ stopped_clips = 1
    /\ ping_thread # None /\ thread[ping_thread] = "play"
    /\ Cardinality({ i \in ThreadIds : thread[i] # "none" }) = 1

\* ------------------------------------------------------------------------
\* C18: bad_posture_count grows by at most 1 per frame, and two frames that
\* increment it are at least 5 s apart with at least 3 bad-angle frames
\* counted after the earlier one, the later one being the third. Stated on
\* the program's own records: last_detection_time is the clock reading of the
\* latest increment (it changes only at an increment, to that frame's time)
\* and consecutive_bad_posture is 0 after an increment and grows by one at a
\* time on bad-angle frames only; an increment needs now - last_detection_time
\* >= 5 s and two counted bad-angle frames before its own.
C18_IncrementsSpaced ==
    /\ [][ FrameStep =>
             LET inc == bad_posture_count' = bad_posture_count + 1
             IN  /\ bad_posture_count' <= bad_posture_count + 1
                 /\ inc => /\ frame' = "landmarks" /\ IsBadAngle(sit')
                           /\ now' - last_detection_time >= Ticks(5)
                           /\ consecutive_bad_posture >= 2
                           /\ last_detection_time' = now'
                           /\ consecutive_bad_posture' = 0
                 /\ ~inc => last_detection_time' = last_detection_time
                 /\ consecutive_bad_posture' <= consecutive_bad_posture + 1
                 /\ consecutive_bad_posture' = consecutive_bad_posture + 1
                       => (frame' = "landmarks" /\ IsBadAngle(sit'))
                 /\ now' >= now ]_vars
    /\ [][ ~FrameStep => UNCHANGED << bad_posture_count, last_detection_time,
                                      consecutive_bad_posture, now >> ]_vars

\* the third increment, 5.0 s after the second one, which came 5.0 s after the
\* first: the earliest clock reading at which the count can reach 3
C18_Witness ==
    /\ pc = "msl" /\ Fired
    /\ bad_posture_count = 3
    /\ last_detection_time = now
    /\ now = Ticks(StartSec + CONSECUTIVE_NEEDED - 1 + 2 * DETECTION_COOLDOWN)

\* ------------------------------------------------------------------------
\* C19: sitting_start_time is never overwritten with a later timestamp while
\* it is set: a step changes it only from None to the clock reading of the
\* frame being processed, or from a value to None; so while it is set it is
\* the time of the first frame of the sitting episode, never after now.
C19_SittingStartNotRestamped ==
    /\ [][ sitting_start_time' # sitting_start_time =>
              /\ FrameStep
              /\ \/ (sitting_start_time = None /\ sitting_start_time' = now')
                 \/ (sitting_start_time # None /\ sitting_start_time' = None) ]_vars
    /\ [](sitting_start_time # None => sitting_start_time <= now)

\* a later sitting frame of an episode leaves the start of the episode alone
C19_Witness ==
    /\ pc = "msl" /\ FrameSitting
    /\ sitting_start_time # None
    /\ now - sitting_start_time >= Ticks(2)
    /\ now - sitting_start_time < Ticks(SIT_LIMIT_SEC)

====
